---- MODULE Spec2Model ----
(***************************************************************************)
(* Model of the kettle process controller of src/app/page.tsx              *)
(* (ImprovedPanelaDashboard): the React state of the component, the        *)
(* 300 ms simulation loop, the 1 s chronometer and the command handlers.   *)
(*                                                                         *)
(* Numbers.  The program computes in IEEE doubles.  The model computes in  *)
(* fixed point: temperature, brix, torque and efficiency are integers in   *)
(* units of 1/S (S = 10^4), rpm and originalRpm in tenths of an rpm, the   *)
(* setpoint in whole degrees (slider step 1, recipe values are integers).  *)
(* Every product/quotient of the source is rounded to the nearest unit,    *)
(* so a model value differs from the double by rounding only.              *)
(***************************************************************************)
EXTENDS Integers, Sequences, FiniteSets, TLC

\* ---------------------------------------------------------------- numbers
S == 10 ^ 4
R == 10

Min(a, b) == IF a <= b THEN a ELSE b
Max(a, b) == IF a >= b THEN a ELSE b
Abs(a) == IF a >= 0 THEN a ELSE 0 - a
\* a / b rounded to the nearest integer (b > 0)
RoundDiv(a, b) == (2 * a + b) \div (2 * b)

\* ---------------------------------------------------------------- constants
AMBIENT == 25
MAX_BRIX == 85
\* HEAT_K = 0.37, COOL_K = 0.05, BRIX_K = 0.08, in thousandths
HEAT_K == 370
COOL_K == 50
BRIX_K == 80

Clarificacao == "Clarificacao"
Concentracao == "Concentracao"
Ponto == "Ponto"
Finalizado == "Finalizado"
ProcessPhase == {Clarificacao, Concentracao, Ponto, Finalizado}

\* PHASE_CONFIG[phase].setpoint
PHASE_CONFIG == [p \in ProcessPhase |->
    CASE p = Clarificacao -> [setpoint |-> 95]
      [] p = Concentracao -> [setpoint |-> 115]
      [] p = Ponto -> [setpoint |-> 118]
      [] p = Finalizado -> [setpoint |-> 60]]

\* ---------------------------------------------------------------- bounds
\* values the sliders are moved to (setpoint slider 60..130 step 1,
\* rpm slider 10..100 step 5)
SetpointChoices == {60, 130}
RpmChoices == {50, 100}
\* the chronometer is followed up to this many seconds
MaxTime == 2
\* handleStart is followed this many times in one run
MaxStarts == 2
\* after the first start, this many commands that change the state are followed
MaxCmds == 3
\* after the first start, a command is followed when it comes at most this many
\* loop passes after the last command or the last pass that raised an alarm
MaxQuiet == 0

\* the loop is followed for this many passes after a start
MaxPasses == 760

\* at most this many ms go by between the first and the last addAlarm call
\* of one handler
MaxElapsedMs == 1

\* periods of the two intervals, in ms (lines 282 and 290)
TickMs == 300
ClockMs == 1000

\* ---------------------------------------------------------------- state
VARIABLES
    temperature, setpoint, rpm, torque, phase, brix, time, history, auto,
    running, alarms, efficiency, protectionActive, originalRpm,
    showProtectionModal, protectionClosed,
    ref,      \* ref.current: the snapshot the simulation loop reads
    last,     \* the handler that ran last
    pre,      \* ref.current as it was when that handler started
    raised,   \* the alarms that handler added, in call order
    raisedIds, \* the ids of those alarms: the Date.now() reading of each
              \* addAlarm call, in ms after the handler's first reading
    firstTorque, \* the torque a loop pass computed at the rpm it started with
    commandedRpm, \* the speed last asked for on the rpm slider while the
              \* protection was active (0: none since it last went on)
    noCommandSinceOn, \* the protection went on and only the two intervals
              \* have fired since
    starts,   \* how many times handleStart has run
    cmds,     \* state-changing commands since the first start
    quiet,    \* loop passes since the last command or alarm
    passes,   \* loop passes since the last start
    sinceClock \* loop passes since the chronometer interval last fired or was set

procVars == <<temperature, setpoint, rpm, torque, phase, brix, time, history,
              auto, running, alarms, efficiency, protectionActive, originalRpm>>
uiVars == <<showProtectionModal, protectionClosed>>
bookVars == <<starts, cmds, quiet, passes, sinceClock>>
obsVars == <<last, pre, raised, raisedIds, firstTorque, commandedRpm,
             noCommandSinceOn>>
vars == <<procVars, uiVars, ref, obsVars, bookVars>>

\* the object literal of the ref effect
Snapshot(t, sp, r, tq, ph, bx, au, ru, pa, orig) ==
    [temperature |-> t, setpoint |-> sp, rpm |-> r, torque |-> tq, phase |-> ph,
     brix |-> bx, auto |-> au, running |-> ru, protectionActive |-> pa,
     originalRpm |-> orig]

\* useEffect(() => { ref.current = {...} }, [...]): runs after the render
\* that follows every handler, so it closes every action
RefEffect ==
    ref' = Snapshot(temperature', setpoint', rpm', torque', phase', brix',
                    auto', running', protectionActive', originalRpm')

\* ---------------------------------------------------------------- alarms
\* seq.slice(-n)
SliceLast(seq, n) ==
    IF Len(seq) <= n THEN seq ELSE SubSeq(seq, Len(seq) - n + 1, Len(seq))

\* line 150, id: Date.now(): what n successive addAlarm calls of one handler
\* can read from the wall clock (ms resolution, taken not to be set back),
\* counted from the first reading: the same ms again or a later one
Readings(n) ==
    {s \in [1..n -> 0..MaxElapsedMs] :
        /\ n > 0 => s[1] = 0
        /\ \A i \in 1..(n - 1) : s[i] <= s[i + 1]}

Alarm(message, severity) == [message |-> message, severity |-> severity]

\* addAlarm keeping five earlier entries: slice(-5)
addAlarm_keep5(prev, alarm) == Append(SliceLast(prev, 5), alarm)

\* setAlarms(prev => [...prev.slice(-4), {...}])
addAlarm(prev, alarm) == Append(SliceLast(prev, 4), alarm)

RECURSIVE addAlarms(_, _)
\* the addAlarm calls of one handler, in call order
addAlarms(prev, new) ==
    IF new = <<>> THEN prev ELSE addAlarms(addAlarm(prev, Head(new)), Tail(new))

MsgProtectionOn == "PROTECAO ATIVADA: Reduzindo RPM"
MsgProtectionOff == "Protecao desativada: Torque normalizado"
MsgConcentracao == "Iniciando fase de Concentracao"
MsgPonto == "Atingindo ponto ideal"
MsgFinalizado == "Processo finalizado com sucesso!"
MsgTemp == "Temperatura excedendo limite"
MsgTorque == "Torque elevado detectado no motor!"
MsgCritical == "MOTOR EM SOBRECARGA CRITICA!"
MsgStart == "Sistema iniciado em modo automatico"
MsgPause == "Sistema pausado"
MsgConfirm == "Verifique se as protecoes estao fechadas antes de iniciar"

\* ---------------------------------------------------------------- physics
\* the temperature step without its upper clamp
NextTemp_noUpperClamp(t, sp, pa) ==
    LET heatFactor == IF pa THEN (HEAT_K * 8) \div 10 ELSE HEAT_K
        cooled == t + RoundDiv(heatFactor * (sp * S - t) - COOL_K * (t - AMBIENT * S), 1000)
    IN  Max(AMBIENT * S, cooled)

\* lines 166-169
NextTemp(t, sp, pa) ==
    LET heatFactor == IF pa THEN (HEAT_K * 8) \div 10 ELSE HEAT_K
        cooled == t + RoundDiv(heatFactor * (sp * S - t) - COOL_K * (t - AMBIENT * S), 1000)
    IN  Min(sp * S + 10 * S, Max(AMBIENT * S, cooled))

\* the brix step without Math.min(MAX_BRIX, ...)
NextBrix_unclamped(nextTemp, ph, bx) ==
    LET evapNum == Max(0, Min(100 * S, nextTemp - 80 * S))
        phaseFactor == IF ph = Concentracao THEN 18 ELSE IF ph = Ponto THEN 22 ELSE 10
    IN  bx + RoundDiv(BRIX_K * evapNum * phaseFactor, 50 * 1000 * 10)

\* the brix step without the lower clamp of evapFactor: below 80 degrees
\* the evaporation is negative
NextBrix_negativeEvap(nextTemp, ph, bx) ==
    LET evapNum == Min(100 * S, nextTemp - 80 * S)
        phaseFactor == IF ph = Concentracao THEN 18 ELSE IF ph = Ponto THEN 22 ELSE 10
    IN  Min(MAX_BRIX * S, bx + RoundDiv(BRIX_K * evapNum * phaseFactor, 50 * 1000 * 10))

\* lines 172-174: evapFactor = clamp((nextTemp - 80) / 50, 0, 2)
NextBrix(nextTemp, ph, bx) ==
    LET evapNum == Max(0, Min(100 * S, nextTemp - 80 * S))
        phaseFactor == IF ph = Concentracao THEN 18 ELSE IF ph = Ponto THEN 22 ELSE 10
    IN  Min(MAX_BRIX * S, bx + RoundDiv(BRIX_K * evapNum * phaseFactor, 50 * 1000 * 10))

\* line 177: visc = clamp((nextBrix - 20) / 60, 0, 1), kept as visc * 60 * S
Visc(nextBrix) == Max(0, Min(60 * S, nextBrix - 20 * S))

\* the torque formula without Math.min(100, ...)
TorqueAt_unclamped(visc, r, ph) ==
    LET base == 5 * S + RoundDiv(50 * visc, 60) + (20 * S * r) \div (100 * R)
                + RoundDiv(visc * r, 1500)
        raw == IF ph = Ponto THEN base + RoundDiv(5 * visc, 60) ELSE base
    IN  Max(0, raw)

\* lines 178-181 and 216-219: 5 + 50 visc + 20 rpmFactor + 40 visc rpmFactor
TorqueAt(visc, r, ph) ==
    LET base == 5 * S + RoundDiv(50 * visc, 60) + (20 * S * r) \div (100 * R)
                + RoundDiv(visc * r, 1500)
        raw == IF ph = Ponto THEN base + RoundDiv(5 * visc, 60) ELSE base
    IN  Min(100 * S, Max(0, raw))

\* the protection cutting rpm to 50% instead of 70% on activation
Protection_halfCut(r, orig, pa, nextTorque, visc, ph) ==
    IF nextTorque >= 90 * S /\ ~pa
    THEN [nextRpm |-> Max(10 * R, RoundDiv(r * 5, 10)),
          setRpm |-> TRUE,
          nextProtectionActive |-> TRUE,
          nextOriginalRpm |-> r,
          nextTorque |-> nextTorque,
          alarms |-> <<Alarm(MsgProtectionOn, "warning")>>]
    ELSE IF pa
    THEN LET rampUp == nextTorque < 75 * S /\ r < orig
             nextRpm == IF nextTorque >= 85 * S THEN Max(10 * R, r - 2 * R)
                        ELSE IF rampUp THEN Min(orig, r + 5 * R)
                        ELSE r
             off == rampUp /\ nextRpm >= orig
         IN  [nextRpm |-> nextRpm,
              setRpm |-> nextTorque >= 85 * S \/ rampUp,
              nextProtectionActive |-> ~off,
              nextOriginalRpm |-> orig,
              nextTorque |-> TorqueAt(visc, nextRpm, ph),
              alarms |-> IF off THEN <<Alarm(MsgProtectionOff, "info")>> ELSE <<>>]
    ELSE [nextRpm |-> r, setRpm |-> FALSE, nextProtectionActive |-> pa,
          nextOriginalRpm |-> orig, nextTorque |-> nextTorque, alarms |-> <<>>]

\* the protection activating at the sustain threshold (85) instead of 90
Protection_earlyOn(r, orig, pa, nextTorque, visc, ph) ==
    IF nextTorque >= 85 * S /\ ~pa
    THEN [nextRpm |-> Max(10 * R, RoundDiv(r * 7, 10)),
          setRpm |-> TRUE,
          nextProtectionActive |-> TRUE,
          nextOriginalRpm |-> r,
          nextTorque |-> nextTorque,
          alarms |-> <<Alarm(MsgProtectionOn, "warning")>>]
    ELSE IF pa
    THEN LET rampUp == nextTorque < 75 * S /\ r < orig
             nextRpm == IF nextTorque >= 85 * S THEN Max(10 * R, r - 2 * R)
                        ELSE IF rampUp THEN Min(orig, r + 5 * R)
                        ELSE r
             off == rampUp /\ nextRpm >= orig
         IN  [nextRpm |-> nextRpm,
              setRpm |-> nextTorque >= 85 * S \/ rampUp,
              nextProtectionActive |-> ~off,
              nextOriginalRpm |-> orig,
              nextTorque |-> TorqueAt(visc, nextRpm, ph),
              alarms |-> IF off THEN <<Alarm(MsgProtectionOff, "info")>> ELSE <<>>]
    ELSE [nextRpm |-> r, setRpm |-> FALSE, nextProtectionActive |-> pa,
          nextOriginalRpm |-> orig, nextTorque |-> nextTorque, alarms |-> <<>>]

\* the protection switching off on the first ramp-up step, before the
\* rpm is back at originalRpm
Protection_earlyOff(r, orig, pa, nextTorque, visc, ph) ==
    IF nextTorque >= 90 * S /\ ~pa
    THEN [nextRpm |-> Max(10 * R, RoundDiv(r * 7, 10)),
          setRpm |-> TRUE,
          nextProtectionActive |-> TRUE,
          nextOriginalRpm |-> r,
          nextTorque |-> nextTorque,
          alarms |-> <<Alarm(MsgProtectionOn, "warning")>>]
    ELSE IF pa
    THEN LET rampUp == nextTorque < 75 * S /\ r < orig
             nextRpm == IF nextTorque >= 85 * S THEN Max(10 * R, r - 2 * R)
                        ELSE IF rampUp THEN Min(orig, r + 5 * R)
                        ELSE r
             off == rampUp
         IN  [nextRpm |-> nextRpm,
              setRpm |-> nextTorque >= 85 * S \/ rampUp,
              nextProtectionActive |-> ~off,
              nextOriginalRpm |-> orig,
              nextTorque |-> TorqueAt(visc, nextRpm, ph),
              alarms |-> IF off THEN <<Alarm(MsgProtectionOff, "info")>> ELSE <<>>]
    ELSE [nextRpm |-> r, setRpm |-> FALSE, nextProtectionActive |-> pa,
          nextOriginalRpm |-> orig, nextTorque |-> nextTorque, alarms |-> <<>>]

\* the protection without the ramp-down: above 85 the rpm is held
Protection_noRampDown(r, orig, pa, nextTorque, visc, ph) ==
    IF nextTorque >= 90 * S /\ ~pa
    THEN [nextRpm |-> Max(10 * R, RoundDiv(r * 7, 10)),
          setRpm |-> TRUE,
          nextProtectionActive |-> TRUE,
          nextOriginalRpm |-> r,
          nextTorque |-> nextTorque,
          alarms |-> <<Alarm(MsgProtectionOn, "warning")>>]
    ELSE IF pa
    THEN LET rampUp == nextTorque < 75 * S /\ r < orig
             nextRpm == IF nextTorque >= 85 * S THEN r
                        ELSE IF rampUp THEN Min(orig, r + 5 * R)
                        ELSE r
             off == rampUp /\ nextRpm >= orig
         IN  [nextRpm |-> nextRpm,
              setRpm |-> nextTorque >= 85 * S \/ rampUp,
              nextProtectionActive |-> ~off,
              nextOriginalRpm |-> orig,
              nextTorque |-> TorqueAt(visc, nextRpm, ph),
              alarms |-> IF off THEN <<Alarm(MsgProtectionOff, "info")>> ELSE <<>>]
    ELSE [nextRpm |-> r, setRpm |-> FALSE, nextProtectionActive |-> pa,
          nextOriginalRpm |-> orig, nextTorque |-> nextTorque, alarms |-> <<>>]

\* the protection without the hold band: below 85 the rpm ramps up
Protection_noHold(r, orig, pa, nextTorque, visc, ph) ==
    IF nextTorque >= 90 * S /\ ~pa
    THEN [nextRpm |-> Max(10 * R, RoundDiv(r * 7, 10)),
          setRpm |-> TRUE,
          nextProtectionActive |-> TRUE,
          nextOriginalRpm |-> r,
          nextTorque |-> nextTorque,
          alarms |-> <<Alarm(MsgProtectionOn, "warning")>>]
    ELSE IF pa
    THEN LET rampUp == nextTorque < 85 * S /\ r < orig
             nextRpm == IF nextTorque >= 85 * S THEN Max(10 * R, r - 2 * R)
                        ELSE IF rampUp THEN Min(orig, r + 5 * R)
                        ELSE r
             off == rampUp /\ nextRpm >= orig
         IN  [nextRpm |-> nextRpm,
              setRpm |-> nextTorque >= 85 * S \/ rampUp,
              nextProtectionActive |-> ~off,
              nextOriginalRpm |-> orig,
              nextTorque |-> TorqueAt(visc, nextRpm, ph),
              alarms |-> IF off THEN <<Alarm(MsgProtectionOff, "info")>> ELSE <<>>]
    ELSE [nextRpm |-> r, setRpm |-> FALSE, nextProtectionActive |-> pa,
          nextOriginalRpm |-> orig, nextTorque |-> nextTorque, alarms |-> <<>>]

\* the protection ramping down by 20 rpm per pass
Protection_steepRampDown(r, orig, pa, nextTorque, visc, ph) ==
    IF nextTorque >= 90 * S /\ ~pa
    THEN [nextRpm |-> Max(10 * R, RoundDiv(r * 7, 10)),
          setRpm |-> TRUE,
          nextProtectionActive |-> TRUE,
          nextOriginalRpm |-> r,
          nextTorque |-> nextTorque,
          alarms |-> <<Alarm(MsgProtectionOn, "warning")>>]
    ELSE IF pa
    THEN LET rampUp == nextTorque < 75 * S /\ r < orig
             nextRpm == IF nextTorque >= 85 * S THEN Max(10 * R, r - 20 * R)
                        ELSE IF rampUp THEN Min(orig, r + 5 * R)
                        ELSE r
             off == rampUp /\ nextRpm >= orig
         IN  [nextRpm |-> nextRpm,
              setRpm |-> nextTorque >= 85 * S \/ rampUp,
              nextProtectionActive |-> ~off,
              nextOriginalRpm |-> orig,
              nextTorque |-> TorqueAt(visc, nextRpm, ph),
              alarms |-> IF off THEN <<Alarm(MsgProtectionOff, "info")>> ELSE <<>>]
    ELSE [nextRpm |-> r, setRpm |-> FALSE, nextProtectionActive |-> pa,
          nextOriginalRpm |-> orig, nextTorque |-> nextTorque, alarms |-> <<>>]

\* lines 184-220: the motor protection; nextTorque is the torque at the
\* rpm the tick started with
Protection(r, orig, pa, nextTorque, visc, ph) ==
    IF nextTorque >= 90 * S /\ ~pa
    THEN [nextRpm |-> Max(10 * R, RoundDiv(r * 7, 10)),
          setRpm |-> TRUE,
          nextProtectionActive |-> TRUE,
          nextOriginalRpm |-> r,
          nextTorque |-> nextTorque,
          alarms |-> <<Alarm(MsgProtectionOn, "warning")>>]
    ELSE IF pa
    THEN LET rampUp == nextTorque < 75 * S /\ r < orig
             nextRpm == IF nextTorque >= 85 * S THEN Max(10 * R, r - 2 * R)
                        ELSE IF rampUp THEN Min(orig, r + 5 * R)
                        ELSE r
             off == rampUp /\ nextRpm >= orig
         IN  [nextRpm |-> nextRpm,
              setRpm |-> nextTorque >= 85 * S \/ rampUp,
              nextProtectionActive |-> ~off,
              nextOriginalRpm |-> orig,
              nextTorque |-> TorqueAt(visc, nextRpm, ph),
              alarms |-> IF off THEN <<Alarm(MsgProtectionOff, "info")>> ELSE <<>>]
    ELSE [nextRpm |-> r, setRpm |-> FALSE, nextProtectionActive |-> pa,
          nextOriginalRpm |-> orig, nextTorque |-> nextTorque, alarms |-> <<>>]

\* lines 223-225
Efficiency(nextTemp, sp, nextTorque) ==
    LET tempEfficiency == 100 * S - RoundDiv(Abs(nextTemp - sp * S), 2)
        torqueEfficiency == 100 * S - Max(0, nextTorque - 80 * S) * 2
    IN  Min(100 * S, Max(0, RoundDiv(tempEfficiency + torqueEfficiency, 2)))

\* the sequencer falling through to the next test in the same pass
\* (if ... if ... instead of if ... else if ...)
PhaseTransition_fallThrough(au, ph, sp, nextTemp, nextBrix, nextTorque) ==
    LET p1 == IF au /\ ph = Clarificacao /\ (nextTemp >= 85 * S \/ nextBrix >= 26 * S)
              THEN Concentracao ELSE ph
        p2 == IF au /\ p1 = Concentracao /\ (nextBrix >= 55 * S \/ nextTorque >= 70 * S)
              THEN Ponto ELSE p1
        p3 == IF au /\ p2 = Ponto /\ nextBrix >= 75 * S THEN Finalizado ELSE p2
    IN  IF p3 = ph THEN [nextPhase |-> ph, nextSetpoint |-> sp, alarms |-> <<>>]
        ELSE [nextPhase |-> p3, nextSetpoint |-> PHASE_CONFIG[p3].setpoint,
              alarms |-> <<Alarm(IF p3 = Concentracao THEN MsgConcentracao
                                 ELSE IF p3 = Ponto THEN MsgPonto ELSE MsgFinalizado,
                                 "info")>>]

\* the sequencer leaving Clarificacao at 90 degrees instead of 85
PhaseTransition_lateClarificacao(au, ph, sp, nextTemp, nextBrix, nextTorque) ==
    IF au /\ ph = Clarificacao /\ (nextTemp >= 90 * S \/ nextBrix >= 26 * S)
    THEN [nextPhase |-> Concentracao, nextSetpoint |-> PHASE_CONFIG[Concentracao].setpoint,
          alarms |-> <<Alarm(MsgConcentracao, "info")>>]
    ELSE IF au /\ ph = Concentracao /\ (nextBrix >= 55 * S \/ nextTorque >= 70 * S)
    THEN [nextPhase |-> Ponto, nextSetpoint |-> PHASE_CONFIG[Ponto].setpoint,
          alarms |-> <<Alarm(MsgPonto, "info")>>]
    ELSE IF au /\ ph = Ponto /\ nextBrix >= 75 * S
    THEN [nextPhase |-> Finalizado, nextSetpoint |-> PHASE_CONFIG[Finalizado].setpoint,
          alarms |-> <<Alarm(MsgFinalizado, "info")>>]
    ELSE [nextPhase |-> ph, nextSetpoint |-> sp, alarms |-> <<>>]

\* the sequencer starting the recipe over once it is finished
PhaseTransition_cyclic(au, ph, sp, nextTemp, nextBrix, nextTorque) ==
    IF au /\ ph = Clarificacao /\ (nextTemp >= 85 * S \/ nextBrix >= 26 * S)
    THEN [nextPhase |-> Concentracao, nextSetpoint |-> PHASE_CONFIG[Concentracao].setpoint,
          alarms |-> <<Alarm(MsgConcentracao, "info")>>]
    ELSE IF au /\ ph = Concentracao /\ (nextBrix >= 55 * S \/ nextTorque >= 70 * S)
    THEN [nextPhase |-> Ponto, nextSetpoint |-> PHASE_CONFIG[Ponto].setpoint,
          alarms |-> <<Alarm(MsgPonto, "info")>>]
    ELSE IF au /\ ph = Ponto /\ nextBrix >= 75 * S
    THEN [nextPhase |-> Finalizado, nextSetpoint |-> PHASE_CONFIG[Finalizado].setpoint,
          alarms |-> <<Alarm(MsgFinalizado, "info")>>]
    ELSE IF au /\ ph = Finalizado
    THEN [nextPhase |-> Clarificacao, nextSetpoint |-> PHASE_CONFIG[Clarificacao].setpoint,
          alarms |-> <<>>]
    ELSE [nextPhase |-> ph, nextSetpoint |-> sp, alarms |-> <<>>]

\* the transitions without the test of auto
PhaseTransition_ignoresAuto(au, ph, sp, nextTemp, nextBrix, nextTorque) ==
    IF ph = Clarificacao /\ (nextTemp >= 85 * S \/ nextBrix >= 26 * S)
    THEN [nextPhase |-> Concentracao, nextSetpoint |-> PHASE_CONFIG[Concentracao].setpoint,
          alarms |-> <<Alarm(MsgConcentracao, "info")>>]
    ELSE IF ph = Concentracao /\ (nextBrix >= 55 * S \/ nextTorque >= 70 * S)
    THEN [nextPhase |-> Ponto, nextSetpoint |-> PHASE_CONFIG[Ponto].setpoint,
          alarms |-> <<Alarm(MsgPonto, "info")>>]
    ELSE IF ph = Ponto /\ nextBrix >= 75 * S
    THEN [nextPhase |-> Finalizado, nextSetpoint |-> PHASE_CONFIG[Finalizado].setpoint,
          alarms |-> <<Alarm(MsgFinalizado, "info")>>]
    ELSE [nextPhase |-> ph, nextSetpoint |-> sp, alarms |-> <<>>]

\* the transitions without the last one: Ponto is never left
PhaseTransition_noFinish(au, ph, sp, nextTemp, nextBrix, nextTorque) ==
    IF au /\ ph = Clarificacao /\ (nextTemp >= 85 * S \/ nextBrix >= 26 * S)
    THEN [nextPhase |-> Concentracao, nextSetpoint |-> PHASE_CONFIG[Concentracao].setpoint,
          alarms |-> <<Alarm(MsgConcentracao, "info")>>]
    ELSE IF au /\ ph = Concentracao /\ (nextBrix >= 55 * S \/ nextTorque >= 70 * S)
    THEN [nextPhase |-> Ponto, nextSetpoint |-> PHASE_CONFIG[Ponto].setpoint,
          alarms |-> <<Alarm(MsgPonto, "info")>>]
    ELSE [nextPhase |-> ph, nextSetpoint |-> sp, alarms |-> <<>>]

\* lines 228-246
PhaseTransition(au, ph, sp, nextTemp, nextBrix, nextTorque) ==
    IF au /\ ph = Clarificacao /\ (nextTemp >= 85 * S \/ nextBrix >= 26 * S)
    THEN [nextPhase |-> Concentracao, nextSetpoint |-> PHASE_CONFIG[Concentracao].setpoint,
          alarms |-> <<Alarm(MsgConcentracao, "info")>>]
    ELSE IF au /\ ph = Concentracao /\ (nextBrix >= 55 * S \/ nextTorque >= 70 * S)
    THEN [nextPhase |-> Ponto, nextSetpoint |-> PHASE_CONFIG[Ponto].setpoint,
          alarms |-> <<Alarm(MsgPonto, "info")>>]
    ELSE IF au /\ ph = Ponto /\ nextBrix >= 75 * S
    THEN [nextPhase |-> Finalizado, nextSetpoint |-> PHASE_CONFIG[Finalizado].setpoint,
          alarms |-> <<Alarm(MsgFinalizado, "info")>>]
    ELSE [nextPhase |-> ph, nextSetpoint |-> sp, alarms |-> <<>>]

\* the alarm checks with the high-torque test on the level: no torque < 85
AlarmChecks_levelTorque(nextTemp, t, sp, nextTorque, tq, pa) ==
    (IF nextTemp > (sp + 5) * S /\ t <= (sp + 5) * S
     THEN <<Alarm(MsgTemp, "warning")>> ELSE <<>>)
    \o (IF nextTorque >= 85 * S /\ ~pa
        THEN <<Alarm(MsgTorque, "warning")>> ELSE <<>>)
    \o (IF nextTorque >= 95 * S THEN <<Alarm(MsgCritical, "error")>> ELSE <<>>)

\* the alarm checks with the temperature test on the level: no
\* temperature <= setpoint + 5
AlarmChecks_levelTemp(nextTemp, t, sp, nextTorque, tq, pa) ==
    (IF nextTemp > (sp + 5) * S
     THEN <<Alarm(MsgTemp, "warning")>> ELSE <<>>)
    \o (IF nextTorque >= 85 * S /\ tq < 85 * S /\ ~pa
        THEN <<Alarm(MsgTorque, "warning")>> ELSE <<>>)
    \o (IF nextTorque >= 95 * S THEN <<Alarm(MsgCritical, "error")>> ELSE <<>>)

\* lines 249-257
AlarmChecks(nextTemp, t, sp, nextTorque, tq, pa) ==
    (IF nextTemp > (sp + 5) * S /\ t <= (sp + 5) * S
     THEN <<Alarm(MsgTemp, "warning")>> ELSE <<>>)
    \o (IF nextTorque >= 85 * S /\ tq < 85 * S /\ ~pa
        THEN <<Alarm(MsgTorque, "warning")>> ELSE <<>>)
    \o (IF nextTorque >= 95 * S THEN <<Alarm(MsgCritical, "error")>> ELSE <<>>)

\* x.toFixed(1), in tenths
ToFixed1(x) == RoundDiv(x, S \div 10)

\* lines 268-278 (the wall-clock label of the point is not modelled)
HistoryPoint(nextTemp, nextTorque, nextBrix, nextSetpoint) ==
    [temp |-> ToFixed1(nextTemp), torque |-> ToFixed1(nextTorque),
     brix |-> ToFixed1(nextBrix), setpoint |-> nextSetpoint]

\* setHistory without the slice: the buffer keeps every sample
addHistory_keepAll(h, point) == Append(h, point)

\* line 280: [...h.slice(-99), newPoint]
addHistory(h, point) == Append(SliceLast(h, 99), point)

\* lines 160-281: what one pass of the loop body computes from ref.current,
\* collected from the values of its successive statements
SimStep(c, nextTemp, nextBrix, torque1, prot, trans, checks) ==
    [nextTemp |-> nextTemp, nextBrix |-> nextBrix, torque1 |-> torque1,
     nextTorque |-> prot.nextTorque, nextRpm |-> prot.nextRpm, setRpm |-> prot.setRpm,
     nextProtectionActive |-> prot.nextProtectionActive,
     nextOriginalRpm |-> prot.nextOriginalRpm,
     nextPhase |-> trans.nextPhase, nextSetpoint |-> trans.nextSetpoint,
     efficiency |-> Efficiency(nextTemp, c.setpoint, prot.nextTorque),
     alarms |-> prot.alarms \o trans.alarms \o checks]

\* ---------------------------------------------------------------- actions
\* lines 121-139, 142
Init ==
    /\ temperature = AMBIENT * S
    /\ setpoint = 95
    /\ rpm = 40 * R
    /\ torque = 10 * S
    /\ phase = Clarificacao
    /\ brix = 20 * S
    /\ time = 0
    /\ history = <<>>
    /\ auto = FALSE
    /\ running = FALSE
    /\ alarms = <<>>
    /\ efficiency = 100 * S
    /\ protectionActive = FALSE
    /\ originalRpm = 40 * R
    /\ showProtectionModal = FALSE
    /\ protectionClosed = FALSE
    /\ ref = Snapshot(AMBIENT * S, 95, 40 * R, 10 * S, Clarificacao, 20 * S,
                      FALSE, FALSE, FALSE, 40 * R)
    /\ last = "init"
    /\ pre = ref
    /\ raised = <<>>
    /\ raisedIds = <<>>
    /\ firstTorque = 0
    /\ commandedRpm = 0
    /\ noCommandSinceOn = FALSE
    /\ starts = 0
    /\ cmds = 0
    /\ quiet = 0
    /\ passes = 0
    /\ sinceClock = 0

\* what the run of a handler leaves for the observer
Ran(name, new, t1) ==
    /\ last' = name
    /\ pre' = ref
    /\ raised' = new
    /\ raisedIds' \in Readings(Len(new))
    /\ firstTorque' = t1
    /\ noCommandSinceOn' =
           IF name \in {"tick", "clock", "refEffect"}
           THEN (\E i \in 1..Len(new) : new[i].message = MsgProtectionOn)
                    \/ noCommandSinceOn
           ELSE FALSE
    /\ IF name = "rpmSlider"
       THEN TRUE
       ELSE commandedRpm' =
                IF \E i \in 1..Len(new) : new[i].message = MsgProtectionOn
                THEN 0 ELSE commandedRpm

\* bookkeeping of a command: the budget it uses and the window it reopens
Commanded ==
    /\ quiet <= MaxQuiet
    /\ cmds' = IF starts >= 1 /\ <<procVars, uiVars>>' # <<procVars, uiVars>>
               THEN cmds + 1 ELSE cmds
    /\ cmds' <= MaxCmds
    /\ quiet' = 0
    /\ passes' = IF running' /\ ~running THEN 0 ELSE passes
    /\ sinceClock' = IF running' = running THEN sinceClock ELSE 0

\* the early return left out
Skips_never(c) == FALSE

\* line 162: if (!running) return
Skips(c) == ~c.running

\* lines 164-281: a pass of the loop that got past the early return
Pass ==
    \E c \in {ref} :
    \E nextTemp \in {NextTemp(c.temperature, c.setpoint, c.protectionActive)} :
    \E nextBrix \in {NextBrix(nextTemp, c.phase, c.brix)} :
    \E visc \in {Visc(nextBrix)} :
    \E torque1 \in {TorqueAt(visc, c.rpm, c.phase)} :
    \E prot \in {Protection(c.rpm, c.originalRpm, c.protectionActive, torque1, visc,
                             c.phase)} :
    \E trans \in {PhaseTransition(c.auto, c.phase, c.setpoint, nextTemp, nextBrix,
                                   prot.nextTorque)} :
    \E checks \in {AlarmChecks(nextTemp, c.temperature, c.setpoint, prot.nextTorque,
                                c.torque, c.protectionActive)} :
    \E n \in {SimStep(c, nextTemp, nextBrix, torque1, prot, trans, checks)} :
        /\ Ran("tick", n.alarms, n.torque1)
        /\ time >= MaxTime \/ sinceClock * TickMs <= ClockMs
        /\ passes' = Min(passes + 1, MaxPasses)
        /\ temperature' = n.nextTemp
        /\ brix' = n.nextBrix
        /\ torque' = n.nextTorque
        /\ rpm' = IF n.setRpm THEN n.nextRpm ELSE rpm
        /\ protectionActive' =
               IF n.nextProtectionActive # c.protectionActive
               THEN n.nextProtectionActive ELSE protectionActive
        /\ originalRpm' =
               IF n.nextProtectionActive /\ ~c.protectionActive
               THEN n.nextOriginalRpm ELSE originalRpm
        /\ efficiency' = n.efficiency
        /\ phase' = IF n.nextPhase # c.phase THEN n.nextPhase ELSE phase
        /\ setpoint' = IF n.nextSetpoint # c.setpoint THEN n.nextSetpoint ELSE setpoint
        /\ alarms' = addAlarms(alarms, n.alarms)
        /\ history' = addHistory(history,
               HistoryPoint(n.nextTemp, n.nextTorque, n.nextBrix, n.nextSetpoint))
        /\ quiet' = IF n.alarms # <<>> THEN 0 ELSE Min(quiet + 1, MaxQuiet + 1)
        /\ sinceClock' = IF time >= MaxTime THEN 0 ELSE sinceClock + 1
        /\ UNCHANGED <<time, auto, running, uiVars, starts, cmds>>
        /\ RefEffect

\* lines 159-282: the setInterval callback of the simulation loop, followed
\* for MaxPasses passes after a start
Tick ==
    IF Skips(ref)
    THEN Ran("tick", <<>>, 0) /\ UNCHANGED <<procVars, uiVars, ref, bookVars>>
    ELSE passes < MaxPasses /\ Pass

\* lines 159-282: the setInterval callback, followed for as long as it fires
TickForever ==
    IF Skips(ref)
    THEN Ran("tick", <<>>, 0) /\ UNCHANGED <<procVars, uiVars, ref, bookVars>>
    ELSE Pass

\* the chronometer with two intervals alive (an effect without its cleanup)
ClockTick_twice ==
    /\ running
    /\ time < MaxTime
    /\ (sinceClock + 1) * TickMs > ClockMs
    /\ Ran("clock", <<>>, 0)
    /\ time' = time + 2
    /\ sinceClock' = 0
    /\ UNCHANGED <<temperature, setpoint, rpm, torque, phase, brix, history, auto,
                   running, alarms, efficiency, protectionActive, originalRpm,
                   uiVars, ref, starts, cmds, quiet, passes>>

\* lines 288-292: the chronometer interval exists while running
ClockTick ==
    /\ running
    /\ time < MaxTime
    /\ (sinceClock + 1) * TickMs > ClockMs
    /\ Ran("clock", <<>>, 0)
    /\ time' = time + 1
    /\ sinceClock' = 0
    /\ UNCHANGED <<temperature, setpoint, rpm, torque, phase, brix, history, auto,
                   running, alarms, efficiency, protectionActive, originalRpm,
                   uiVars, ref, starts, cmds, quiet, passes>>

\* handleStart without setPhase / setSetpoint: the recipe resumes where it was
handleStart_resume ==
    /\ running' = TRUE
    /\ auto' = TRUE
    /\ alarms' = addAlarm(alarms, Alarm(MsgStart, "info"))
    /\ UNCHANGED <<temperature, setpoint, rpm, torque, phase, brix, time, history,
                   efficiency, protectionActive, originalRpm, uiVars>>

\* lines 310-316
handleStart ==
    /\ running' = TRUE
    /\ auto' = TRUE
    /\ phase' = Clarificacao
    /\ setpoint' = PHASE_CONFIG[Clarificacao].setpoint
    /\ alarms' = addAlarm(alarms, Alarm(MsgStart, "info"))
    /\ UNCHANGED <<temperature, rpm, torque, brix, time, history, efficiency,
                   protectionActive, originalRpm, uiVars>>

\* handlePause also leaving the automatic mode
handlePause_manual ==
    /\ running' = FALSE
    /\ auto' = FALSE
    /\ alarms' = addAlarm(alarms, Alarm(MsgPause, "warning"))
    /\ UNCHANGED <<temperature, setpoint, rpm, torque, phase, brix, time, history,
                   efficiency, protectionActive, originalRpm, uiVars>>

\* lines 318-321
handlePause ==
    /\ running' = FALSE
    /\ alarms' = addAlarm(alarms, Alarm(MsgPause, "warning"))
    /\ UNCHANGED <<temperature, setpoint, rpm, torque, phase, brix, time, history,
                   auto, efficiency, protectionActive, originalRpm, uiVars>>

\* the start / pause button without the safety dialog
StartClick_noDialog ==
    /\ IF running
       THEN Ran("pause", <<Alarm(MsgPause, "warning")>>, 0) /\ handlePause /\ UNCHANGED starts
       ELSE starts < MaxStarts /\ Ran("start", <<Alarm(MsgStart, "info")>>, 0) /\ handleStart /\ starts' = starts + 1
    /\ Commanded
    /\ RefEffect

\* lines 295-308: the start / pause button
StartClick ==
    /\ IF ~protectionClosed
       THEN /\ Ran("startClickModal", <<>>, 0)
            /\ showProtectionModal' = TRUE
            /\ UNCHANGED <<procVars, protectionClosed, starts>>
       ELSE IF running
       THEN Ran("pause", <<Alarm(MsgPause, "warning")>>, 0) /\ handlePause /\ UNCHANGED starts
       ELSE starts < MaxStarts /\ Ran("start", <<Alarm(MsgStart, "info")>>, 0) /\ handleStart /\ starts' = starts + 1
    /\ Commanded
    /\ RefEffect

\* lines 341-345: the button of the safety dialog
handleProtectionConfirm ==
    /\ showProtectionModal
    /\ Ran("confirm", <<Alarm(MsgConfirm, "warning")>>, 0)
    /\ protectionClosed' = TRUE
    /\ showProtectionModal' = FALSE
    /\ alarms' = addAlarm(alarms, Alarm(MsgConfirm, "warning"))
    /\ UNCHANGED <<temperature, setpoint, rpm, torque, phase, brix, time, history,
                   auto, running, efficiency, protectionActive, originalRpm, starts>>
    /\ Commanded
    /\ RefEffect

\* line 396: onOpenChange of the safety dialog (dismissed without confirming)
DismissModal ==
    /\ showProtectionModal
    /\ Ran("dismiss", <<>>, 0)
    /\ showProtectionModal' = FALSE
    /\ UNCHANGED <<procVars, protectionClosed, starts>>
    /\ Commanded
    /\ RefEffect

\* handleReset without setOriginalRpm(40)
handleReset_keepsOriginalRpm ==
    /\ Ran("reset", <<>>, 0)
    /\ running' = FALSE
    /\ auto' = FALSE
    /\ phase' = Clarificacao
    /\ setpoint' = PHASE_CONFIG[Clarificacao].setpoint
    /\ temperature' = AMBIENT * S
    /\ brix' = 20 * S
    /\ rpm' = 40 * R
    /\ torque' = 10 * S
    /\ time' = 0
    /\ history' = <<>>
    /\ alarms' = <<>>
    /\ efficiency' = 100 * S
    /\ protectionActive' = FALSE
    /\ UNCHANGED <<originalRpm, uiVars, starts>>
    /\ Commanded
    /\ RefEffect

\* lines 324-337: the setters of handleReset
ResetState ==
    /\ running' = FALSE
    /\ auto' = FALSE
    /\ phase' = Clarificacao
    /\ setpoint' = PHASE_CONFIG[Clarificacao].setpoint
    /\ temperature' = AMBIENT * S
    /\ brix' = 20 * S
    /\ rpm' = 40 * R
    /\ torque' = 10 * S
    /\ time' = 0
    /\ history' = <<>>
    /\ alarms' = <<>>
    /\ efficiency' = 100 * S
    /\ protectionActive' = FALSE
    /\ originalRpm' = 40 * R

\* lines 323-339
handleReset ==
    /\ Ran("reset", <<>>, 0)
    /\ ResetState
    /\ UNCHANGED <<uiVars, starts>>
    /\ Commanded
    /\ RefEffect

\* lines 667-674: onValueChange of the setpoint slider
SetpointSlider(v) ==
    /\ Ran("setpointSlider", <<>>, 0)
    /\ setpoint' = IF ~auto THEN v ELSE setpoint
    /\ UNCHANGED <<temperature, rpm, torque, phase, brix, time, history, auto, running,
                   alarms, efficiency, protectionActive, originalRpm, uiVars, starts>>
    /\ Commanded
    /\ RefEffect

\* the rpm slider latching the commanded speed in originalRpm while the
\* protection is active
RpmSlider_latching(v) ==
    /\ Ran("rpmSlider", <<>>, 0)
    /\ commandedRpm' = IF protectionActive THEN v * R ELSE commandedRpm
    /\ rpm' = IF ~protectionActive THEN v * R ELSE rpm
    /\ originalRpm' = v * R
    /\ UNCHANGED <<temperature, setpoint, torque, phase, brix, time, history, auto,
                   running, alarms, efficiency, protectionActive, uiVars, starts>>
    /\ Commanded
    /\ RefEffect

\* the rpm slider without the test of protectionActive
RpmSlider_unguarded(v) ==
    /\ Ran("rpmSlider", <<>>, 0)
    /\ commandedRpm' = IF protectionActive THEN v * R ELSE commandedRpm
    /\ rpm' = v * R
    /\ originalRpm' = v * R
    /\ UNCHANGED <<temperature, setpoint, torque, phase, brix, time, history, auto,
                   running, alarms, efficiency, protectionActive, uiVars, starts>>
    /\ Commanded
    /\ RefEffect

\* the rpm slider without setOriginalRpm(v[0])
RpmSlider_rpmOnly(v) ==
    /\ Ran("rpmSlider", <<>>, 0)
    /\ commandedRpm' = IF protectionActive THEN v * R ELSE commandedRpm
    /\ rpm' = IF ~protectionActive THEN v * R ELSE rpm
    /\ UNCHANGED <<temperature, setpoint, torque, phase, brix, time, history, auto,
                   running, alarms, efficiency, protectionActive, originalRpm, uiVars,
                   starts>>
    /\ Commanded
    /\ RefEffect

\* lines 688-701: onValueChange of the rpm slider
RpmSlider(v) ==
    /\ Ran("rpmSlider", <<>>, 0)
    /\ commandedRpm' = IF protectionActive THEN v * R ELSE commandedRpm
    /\ rpm' = IF ~protectionActive THEN v * R ELSE rpm
    /\ originalRpm' = IF ~protectionActive THEN v * R ELSE originalRpm
    /\ UNCHANGED <<temperature, setpoint, torque, phase, brix, time, history, auto,
                   running, alarms, efficiency, protectionActive, uiVars, starts>>
    /\ Commanded
    /\ RefEffect

\* lines 714-721: the auto-mode button
AutoToggle ==
    /\ Ran("autoToggle", <<>>, 0)
    /\ auto' = ~auto
    /\ UNCHANGED <<temperature, setpoint, rpm, torque, phase, brix, time, history,
                   running, alarms, efficiency, protectionActive, originalRpm,
                   uiVars, starts>>
    /\ Commanded
    /\ RefEffect

Next ==
    \/ Tick
    \/ ClockTick
    \/ StartClick
    \/ handleProtectionConfirm
    \/ DismissModal
    \/ handleReset
    \/ \E v \in SetpointChoices : SetpointSlider(v)
    \/ \E v \in RpmChoices : RpmSlider(v)
    \/ AutoToggle

Spec == Init /\ [][Next]_vars

\* the recipe left to run in automatic mode for as long as the loop fires:
\* the operator confirms the dialog, picks the stirrer speed, starts and
\* pauses; both intervals keep firing (setInterval)
NextForever ==
    \/ TickForever
    \/ ClockTick
    \/ StartClick
    \/ handleProtectionConfirm
    \/ \E v \in RpmChoices : RpmSlider(v)

SpecForever ==
    Init /\ [][NextForever]_vars /\ WF_vars(TickForever) /\ WF_vars(ClockTick)

\* The ref effect taken as a step of its own. ref.current is written by a
\* useEffect (lines 143-145), which React runs after the render that follows
\* a handler; the loop's callback (line 160) reads ref.current whenever its
\* timer fires. Here the timer may fire between the render of a pause or a
\* reset and the run of the effect.

\* lines 318-321, the pause button: state committed, ref effect still to run
PauseEffectPending ==
    /\ protectionClosed
    /\ running
    /\ Ran("pause", <<Alarm(MsgPause, "warning")>>, 0)
    /\ handlePause
    /\ UNCHANGED <<starts, ref>>
    /\ Commanded

\* lines 323-339, the reset button: state committed, ref effect still to run
ResetEffectPending ==
    /\ Ran("reset", <<>>, 0)
    /\ ResetState
    /\ UNCHANGED <<uiVars, starts, ref>>
    /\ Commanded

\* lines 143-145: the effect runs because one of its dependencies changed
RefEffectRuns ==
    /\ ref # Snapshot(temperature, setpoint, rpm, torque, phase, brix, auto,
                      running, protectionActive, originalRpm)
    /\ Ran("refEffect", <<>>, 0)
    /\ UNCHANGED <<procVars, uiVars, bookVars>>
    /\ RefEffect

NextEffectPending ==
    \/ Tick
    \/ ClockTick
    \/ StartClick
    \/ handleProtectionConfirm
    \/ PauseEffectPending
    \/ ResetEffectPending
    \/ RefEffectRuns

SpecEffectPending == Init /\ [][NextEffectPending]_vars

\* ---------------------------------------------------------------- properties
\* the last handler was a pass of the loop that got past the early return
RunningTick == last = "tick" /\ pre.running

\* the alarms of a sequence that carry one of the given messages
Matching(seq, messages) == SelectSeq(seq, LAMBDA a : a.message \in messages)

\* successor of a phase in the recipe
NextPhaseOf(p) ==
    CASE p = Clarificacao -> Concentracao
      [] p = Concentracao -> Ponto
      [] p = Ponto -> Finalizado
      [] p = Finalizado -> Finalizado

\* C1: a pass of the loop that fires while running = false changes nothing:
\* temperature, setpoint, rpm, torque, phase, brix, elapsed time, history,
\* auto, running, alarms, efficiency, protectionActive and originalRpm are
\* the same before and after it.
C1_StoppedTickChangesNothing ==
    [][(last' = "tick" /\ ~running) => UNCHANGED <<procVars, uiVars>>]_vars

\* C1 witness: a pass fired while the process was paused in mid-recipe
C1_Witness ==
    /\ last = "tick" /\ ~pre.running /\ ~running
    /\ Len(history) > 0 /\ temperature > AMBIENT * S

\* C2 as stated: in every reachable state
\* AMBIENT <= temperature <= setpoint + 10, with the setpoint of that state.
C2_Original ==
    AMBIENT * S <= temperature /\ temperature <= (setpoint + 10) * S

\* C2 amended: in every reachable state temperature >= AMBIENT, and the
\* temperature a pass of the loop commits is at most 10 above the setpoint
\* that pass started with (not the setpoint it commits).
C2_TemperatureRange ==
    /\ AMBIENT * S <= temperature
    /\ RunningTick => temperature <= (pre.setpoint + 10) * S

\* C2 witness: a pass whose temperature was cut to its setpoint + 10, after
\* the recipe lowered the setpoint below the temperature
C2_Witness ==
    /\ RunningTick /\ temperature = (pre.setpoint + 10) * S
    /\ pre.temperature > (pre.setpoint + 10) * S

\* C3: in every reachable state 0 <= brix <= MAX_BRIX (85).
C3_BrixRange == 0 <= brix /\ brix <= MAX_BRIX * S

\* C3 witness: a pass that left brix at the upper limit
C3_Witness == RunningTick /\ brix = MAX_BRIX * S /\ pre.brix < MAX_BRIX * S

\* C4: in every reachable state 0 <= torque <= 100, also after a pass in
\* which the protection recomputed the torque with an adjusted rpm.
C4_TorqueRange ==
    /\ 0 <= torque /\ torque <= 100 * S
    /\ 0 <= firstTorque /\ firstTorque <= 100 * S

\* C4 witness: a pass whose torque formula gave more than 100 and that
\* left the torque at 100
C4_Witness == RunningTick /\ torque = 100 * S

\* C5: a pass of the loop leaves the phase as it was or moves it one step
\* along Clarificacao -> Concentracao -> Ponto -> Finalizado, never back and
\* never over a phase, even when the tests of later phases hold as well.
C5_PhaseStepsByOne ==
    last = "tick" => phase \in {pre.phase, NextPhaseOf(pre.phase)}

\* C5 witness: a pass in Clarificacao with brix already >= 75 (the tests of
\* Concentracao and Ponto hold too) moved the phase to Concentracao only
C5_Witness ==
    /\ RunningTick /\ pre.phase = Clarificacao /\ phase = Concentracao
    /\ brix >= 75 * S

\* the test the sequencer applies in phase p to the values a pass commits
PhaseTest(p) ==
    CASE p = Clarificacao -> temperature >= 85 * S \/ brix >= 26 * S
      [] p = Concentracao -> brix >= 55 * S \/ torque >= 70 * S
      [] p = Ponto -> brix >= 75 * S
      [] p = Finalizado -> FALSE

TransitionMessages == {MsgConcentracao, MsgPonto, MsgFinalizado}

TransitionMessage(p) ==
    CASE p = Concentracao -> MsgConcentracao
      [] p = Ponto -> MsgPonto
      [] p = Finalizado -> MsgFinalizado
      [] p = Clarificacao -> ""

\* C6: on a running pass with auto = true the phase advances if and only if
\* the test of the phase the pass started in holds on the values the pass
\* commits (Clarificacao: temperature >= 85 or brix >= 26; Concentracao:
\* brix >= 55 or torque >= 70; Ponto: brix >= 75); when it advances the
\* setpoint becomes that of the new phase (115, 118, 60) and exactly one
\* info alarm, the one of that transition, is added for it.
C6_AutoTransition ==
    (RunningTick /\ pre.auto) =>
        /\ (phase # pre.phase) <=> PhaseTest(pre.phase)
        /\ phase # pre.phase =>
             /\ phase = NextPhaseOf(pre.phase)
             /\ setpoint = PHASE_CONFIG[phase].setpoint
             /\ setpoint = (CASE phase = Concentracao -> 115
                              [] phase = Ponto -> 118
                              [] OTHER -> 60)
             /\ Matching(raised, TransitionMessages)
                  = <<Alarm(TransitionMessage(phase), "info")>>
        /\ phase = pre.phase =>
             /\ setpoint = pre.setpoint
             /\ Matching(raised, TransitionMessages) = <<>>

\* C6 witness: Concentracao -> Ponto taken on the torque test alone
C6_Witness ==
    /\ RunningTick /\ pre.auto /\ pre.phase = Concentracao /\ phase = Ponto
    /\ torque >= 70 * S /\ brix < 55 * S /\ setpoint = 118

\* C7: Finalizado is terminal: a pass of the loop that starts in Finalizado
\* ends in Finalizado, in auto and in manual mode.
C7_FinalizadoTerminal ==
    (last = "tick" /\ pre.phase = Finalizado) => phase = Finalizado

\* C7 witness: a running pass in auto mode that started in Finalizado
C7_Witness == RunningTick /\ pre.auto /\ pre.phase = Finalizado

\* C8: a running pass that computes torque >= 90 with the protection
\* inactive switches the protection on, saves the rpm it started with as
\* originalRpm, sets rpm to max(10, 0.7 * that rpm) and adds a warning alarm.
C8_Activation ==
    (RunningTick /\ ~pre.protectionActive /\ firstTorque >= 90 * S) =>
        /\ protectionActive
        /\ originalRpm = pre.rpm
        /\ 10 * rpm = Max(10 * 10 * R, 7 * pre.rpm)
        /\ Matching(raised, {MsgProtectionOn}) = <<Alarm(MsgProtectionOn, "warning")>>

\* C8 witness: the protection went on at 100 rpm and left 70 rpm
C8_Witness ==
    /\ RunningTick /\ ~pre.protectionActive /\ firstTorque >= 90 * S
    /\ pre.rpm = 100 * R /\ rpm = 70 * R

\* C9 as stated: the protection goes from inactive to active on a pass if
\* and only if the torque crosses 90 from below on that pass (the torque
\* committed before the pass was < 90 and the torque of this pass is >= 90),
\* taking for "the torque of this pass" either the torque the pass computes
\* first or the torque it commits.
C9_Original ==
    RunningTick =>
        \/ (~pre.protectionActive /\ protectionActive)
              <=> (pre.torque < 90 * S /\ firstTorque >= 90 * S)
        \/ (~pre.protectionActive /\ protectionActive)
              <=> (pre.torque < 90 * S /\ torque >= 90 * S)

\* C9 amended: a running pass that starts with the protection inactive
\* switches it on if and only if the torque it computes is >= 90, and the
\* torque committed before such a pass was < 90 (the torque of an inactive
\* protection is always < 90); a pass that starts with the protection
\* already active can cross 90 again without any switch, and a pass that
\* fires while stopped never switches it.
C9_ActivationOnCrossing ==
    /\ (RunningTick /\ ~pre.protectionActive) =>
         /\ protectionActive <=> firstTorque >= 90 * S
         /\ pre.torque < 90 * S
    /\ ~protectionActive => torque < 90 * S
    /\ (last = "tick" /\ ~pre.running) => protectionActive = pre.protectionActive

\* C9 witness: the torque crossed 90 and the protection went on
C9_Witness ==
    /\ RunningTick /\ ~pre.protectionActive /\ protectionActive
    /\ pre.torque < 90 * S /\ torque >= 90 * S

\* C10: the protection goes from active to inactive on a pass only if the
\* torque that pass computed is below 75 and the ramped rpm has reached
\* originalRpm on that pass, which then leaves rpm = originalRpm and adds an
\* info alarm; no pass switches it off earlier and of the commands only
\* reset switches it off.
C10_Deactivation ==
    (pre.protectionActive /\ ~protectionActive) =>
        \/ last = "reset"
        \/ /\ RunningTick
           /\ firstTorque < 75 * S
           /\ pre.rpm + 5 * R >= pre.originalRpm
           /\ rpm = originalRpm /\ originalRpm = pre.originalRpm
           /\ Matching(raised, {MsgProtectionOff}) = <<Alarm(MsgProtectionOff, "info")>>

\* C10 witness: with the protection active a pass computed a torque below
\* 75 and ramped the rpm up without reaching originalRpm, and the
\* protection stayed on
C10_Witness ==
    /\ RunningTick /\ pre.protectionActive /\ protectionActive
    /\ firstTorque < 75 * S /\ rpm = pre.rpm + 5 * R /\ rpm < originalRpm

\* C11: in every reachable state, with the protection active
\* 10 <= rpm < originalRpm, and with the protection inactive
\* rpm = originalRpm.
C11_RpmAgainstOriginal ==
    /\ protectionActive => (10 * R <= rpm /\ rpm < originalRpm)
    /\ ~protectionActive => rpm = originalRpm

\* C11 witness: under protection the ramp has moved the rpm away from the
\* 0.7 cut (down by 2 on this pass), still below originalRpm
C11_Witness ==
    /\ RunningTick /\ pre.protectionActive /\ protectionActive
    /\ rpm = pre.rpm - 2 * R /\ 10 * rpm # 7 * originalRpm /\ rpm < originalRpm

\* C12: on every pass in which the protection changes the rpm (the 0.7 cut
\* at activation, a ramp-down step, a ramp-up step, the final restore) the
\* torque the pass commits is the torque formula evaluated at the adjusted
\* rpm, not at the rpm the pass started with.
C12_TorqueAtAdjustedRpm ==
    (RunningTick /\ rpm # pre.rpm) =>
        torque = TorqueAt(Visc(brix), rpm, pre.phase)

\* C13: when the protection is active and running passes keep occurring
\* without a command stopping them, the committed torque eventually falls
\* below 85: torque >= 85 cannot persist forever under protection.
C13_TorqueEventuallyBelow85 ==
    (protectionActive /\ running)
        ~> (torque < 85 * S \/ ~running \/ ~protectionActive)

\* C13 witness: under protection a pass found the committed torque at 85 or
\* more, stepped the rpm down by 2 and committed a torque below 85
C13_Witness ==
    /\ RunningTick /\ pre.protectionActive /\ protectionActive /\ running
    /\ pre.torque >= 85 * S /\ firstTorque >= 85 * S
    /\ rpm = pre.rpm - 2 * R /\ torque < 85 * S

\* C14: an invalid command is rejected without any change of state: a
\* setpoint command while auto = true leaves the setpoint and every other
\* state variable as it was, and an rpm command while the protection is
\* active leaves rpm, originalRpm and every other state variable as it was.
C14_RejectedCommands ==
    [][((last' = "setpointSlider" /\ auto) \/ (last' = "rpmSlider" /\ protectionActive))
          => UNCHANGED <<procVars, uiVars>>]_vars

\* C14 witness: an rpm command arrived while the protection was active,
\* asking for a speed other than the one applied
C14_Witness ==
    /\ last = "rpmSlider" /\ pre.protectionActive /\ protectionActive
    /\ \A v \in RpmChoices : rpm # v * R /\ originalRpm = pre.originalRpm

C19_CriticalEdgeTriggered ==
    (RunningTick /\ Matching(raised, {MsgCritical}) # <<>>) =>
        (pre.torque < 95 * S /\ torque >= 95 * S)

\* C16: the alarm log never holds more than 5 entries, whatever the
\* operations and also after a pass that adds several alarms; the entries
\* stay in the order they were added and when a sixth is added it is the
\* oldest that is dropped: after every handler the log is the last 5 of the
\* old log followed by the alarms that handler added (reset empties it).
C16_AlarmLog ==
    [][/\ Len(alarms') <= 5
       /\ alarms' = IF last' = "reset" THEN <<>> ELSE SliceLast(alarms \o raised', 5)]_vars

\* C16 witness: a pass added several alarms to a log that had already
\* dropped its first entries, and the log holds 5
C16_Witness ==
    /\ RunningTick /\ Len(raised) >= 2 /\ Len(alarms) = 5
    /\ alarms[1].message \notin {MsgConfirm, MsgStart}
    /\ SubSeq(alarms, 6 - Len(raised), 5) = raised

\* C17: every running pass appends exactly one sample to history and no
\* other operation appends (reset empties it); the history never holds more
\* than 100 samples, the samples stay in the order they were added and the
\* oldest is the one dropped when the buffer is full.
C17_History ==
    [][/\ Len(history') <= 100
       /\ IF last' = "tick" /\ running
          THEN /\ history'[Len(history')]
                    = HistoryPoint(temperature', torque', brix', setpoint')
               /\ IF Len(history) < 100
                  THEN /\ Len(history') = Len(history) + 1
                       /\ SubSeq(history', 1, Len(history)) = history
                  ELSE /\ Len(history') = 100
                       /\ SubSeq(history', 1, 99) = SubSeq(history, 2, 100)
          ELSE IF last' = "reset" THEN history' = <<>>
          ELSE history' = history]_vars

\* C17 witness: more than 100 passes since the start, the buffer holds 100
\* samples and the last pass added one
C17_Witness ==
    /\ RunningTick /\ passes > 100 /\ Len(history) = 100
    /\ history[100] = HistoryPoint(temperature, torque, brix, setpoint)
    /\ history[100] # history[1]

\* C20: start issued while not running sets running = true, auto = true,
\* phase = Clarificacao and setpoint = 95, whatever phase had been reached,
\* and adds one info alarm; it leaves temperature, brix, torque, rpm, the
\* protection state, the elapsed time and the history unchanged.
C20_Start ==
    [][last' = "start" =>
         /\ ~running /\ running' /\ auto' /\ phase' = Clarificacao /\ setpoint' = 95
         /\ raised' = <<Alarm(MsgStart, "info")>>
         /\ alarms' = SliceLast(alarms \o raised', 5)
         /\ UNCHANGED <<temperature, brix, torque, rpm, protectionActive, originalRpm,
                        time, history>>]_vars

\* C20 witness: a start after the recipe had reached Finalizado, with the
\* protection active: back to Clarificacao at 95 degrees
C20_Witness ==
    /\ last = "start" /\ pre.phase = Finalizado /\ pre.setpoint = 60
    /\ pre.protectionActive /\ protectionActive
    /\ phase = Clarificacao /\ setpoint = 95 /\ running /\ auto
    /\ Len(history) > 0 /\ time > 0

\* C18: alarm ids increase in insertion order, so two entries of the log
\* have distinct ids, the later one the larger, also for alarms added within
\* the same pass, where the wall clock the ids are read from does not
\* advance between the calls.
C18_IdsIncrease ==
    \A i, j \in 1..Len(raisedIds) : i < j => raisedIds[i] < raisedIds[j]

\* C21: pause sets running to false and appends one warning alarm; it
\* leaves temperature, brix, torque, rpm, originalRpm, protectionActive,
\* phase, setpoint, auto, the elapsed time and the history unchanged.
C21_Pause ==
    [][last' = "pause" =>
          /\ running /\ ~running'
          /\ raised' = <<Alarm(MsgPause, "warning")>>
          /\ alarms' = SliceLast(alarms \o raised', 5)
          /\ UNCHANGED <<temperature, brix, torque, rpm, originalRpm,
                         protectionActive, phase, setpoint, auto, time, history>>]_vars

\* a pause in automatic mode, past Clarificacao, with the protection active,
\* time elapsed and samples in the history
C21_Witness ==
    /\ last = "pause"
    /\ auto
    /\ phase # Clarificacao
    /\ protectionActive
    /\ time > 0
    /\ history # <<>>

\* C22: reset in any reachable state yields exactly the default state
\* (temperature 25, brix 20, rpm 40, originalRpm 40, torque 10, phase
\* Clarificacao, setpoint 95, time 0, no alarms, no history, efficiency 100,
\* not running, manual mode, protection inactive); the safety acknowledgment
\* keeps its value.
C22_Reset ==
    [][last' = "reset" =>
          /\ temperature' = AMBIENT * S
          /\ brix' = 20 * S
          /\ rpm' = 40 * R
          /\ originalRpm' = 40 * R
          /\ torque' = 10 * S
          /\ phase' = Clarificacao
          /\ setpoint' = 95
          /\ time' = 0
          /\ alarms' = <<>>
          /\ history' = <<>>
          /\ efficiency' = 100 * S
          /\ ~running'
          /\ ~auto'
          /\ ~protectionActive'
          /\ protectionClosed' = protectionClosed]_vars

\* a reset of a running process with the protection active, the stirrer
\* set away from 40 rpm and the safety dialog confirmed
C22_Witness ==
    /\ last = "reset"
    /\ pre.running
    /\ pre.protectionActive
    /\ pre.originalRpm # 40 * R
    /\ pre.phase # Clarificacao
    /\ protectionClosed
    /\ ~running /\ rpm = 40 * R /\ originalRpm = 40 * R

\* C23: the elapsed seconds go up by exactly 1 per firing of the chronometer,
\* which fires only while running; they never change while not running, and
\* no loop pass and no command other than reset changes them.
C23_Elapsed ==
    [][/\ last' = "clock" => running /\ time' = time + 1
       /\ last' \notin {"clock", "reset"} => time' = time
       /\ (~running /\ last' # "reset") => time' = time
       /\ last' = "reset" => time' = 0]_vars

\* the chronometer fired for the second time
C23_Witness == last = "clock" /\ time = 2 /\ running

\* C24: from the default state with rpm 40, after start and 200 consecutive
\* loop passes in automatic mode with no other command, the phase is
\* Finalizado.
C24_FinalizadoIn200 ==
    (/\ last = "tick" /\ running /\ auto
     /\ starts = 1 /\ cmds = 0
     /\ originalRpm = 40 * R
     /\ passes = 200)
        => phase = Finalizado

C26_SetpointFollowsRecipe ==
    auto => setpoint = PHASE_CONFIG[phase].setpoint

\* C27: on a pass that starts with the protection active, with the torque
\* computed at the rpm the pass started with: torque >= 85 gives
\* rpm' = max(10, rpm - 2); 75 <= torque < 85 leaves rpm as it is;
\* torque < 75 with rpm < originalRpm gives rpm' = min(originalRpm, rpm + 5);
\* originalRpm is not changed by such a pass.
C27_Ramp ==
    (RunningTick /\ pre.protectionActive) =>
        /\ firstTorque >= 85 * S => rpm = Max(10 * R, pre.rpm - 2 * R)
        /\ (75 * S <= firstTorque /\ firstTorque < 85 * S) => rpm = pre.rpm
        /\ (firstTorque < 75 * S /\ pre.rpm < pre.originalRpm) =>
               rpm = Min(pre.originalRpm, pre.rpm + 5 * R)
        /\ originalRpm = pre.originalRpm

\* a pass in the hold band, reached after the rpm was ramped down
C27_Witness ==
    /\ RunningTick /\ pre.protectionActive
    /\ 75 * S <= firstTorque /\ firstTorque < 85 * S
    /\ rpm = pre.rpm
    /\ 10 * rpm < 7 * originalRpm

\* C28: a pass appends the high-torque warning if and only if the torque
\* committed before it was < 85, the torque it commits is >= 85 and the
\* protection was inactive when it started; so never on a pass that starts
\* with the protection active, and never on the pass that follows one that
\* appended it (the torque staying >= 85).
C28_HighTorqueAlarm ==
    [][(last' = "tick" /\ ref.running) =>
          /\ Len(Matching(raised', {MsgTorque})) <= 1
          /\ Matching(raised', {MsgTorque}) # <<>>
                 <=> (/\ ref.torque < 85 * S
                      /\ torque' >= 85 * S
                      /\ ~ref.protectionActive)
          /\ ref.protectionActive => Matching(raised', {MsgTorque}) = <<>>
          /\ (RunningTick /\ Matching(raised, {MsgTorque}) # <<>>)
                 => Matching(raised', {MsgTorque}) = <<>>]_vars

\* the warning raised by a pass that stays below the protection's threshold
C28_Witness ==
    /\ RunningTick
    /\ Matching(raised, {MsgTorque}) # <<>>
    /\ pre.torque < 85 * S /\ torque >= 85 * S /\ torque < 90 * S
    /\ ~protectionActive

\* C29: a running pass in manual mode never changes phase or setpoint,
\* whatever temperature, brix and torque are; in manual mode only the
\* setpoint slider, start and reset change the setpoint.
C29_ManualMode ==
    [][/\ (last' = "tick" /\ ref.running /\ ~ref.auto) =>
              /\ phase' = phase
              /\ setpoint' = setpoint
              /\ Matching(raised', TransitionMessages) = <<>>
       /\ (~auto /\ setpoint' # setpoint) =>
              last' \in {"setpointSlider", "start", "reset"}]_vars

\* a running pass in manual mode on which the transition test of the phase
\* holds
C29_Witness ==
    /\ RunningTick /\ ~pre.auto
    /\ phase = pre.phase
    /\ PhaseTest(phase)
    /\ phase # Clarificacao

\* C30: the temperature-limit warning is never appended: a pass that starts
\* with temperature <= setpoint + 5 computes a temperature <= setpoint + 5
\* (with the setpoint it read), so the edge test of the alarm never holds,
\* also right after the setpoint was lowered.
C30_NoTemperatureAlarm ==
    /\ Matching(raised, {MsgTemp}) = <<>>
    /\ Matching(alarms, {MsgTemp}) = <<>>
    /\ (RunningTick /\ pre.temperature <= (pre.setpoint + 5) * S)
           => temperature <= (pre.setpoint + 5) * S

\* a pass right after the setpoint was lowered to 60 in manual mode: the
\* temperature it computes is above setpoint + 5, and so was the one before
C30_Witness ==
    /\ RunningTick /\ ~pre.auto
    /\ pre.setpoint = 60
    /\ pre.temperature > (pre.setpoint + 5) * S
    /\ temperature > (pre.setpoint + 5) * S

\* C31: when no command is issued after the protection went on (only the
\* loop and the chronometer fire), the torque computed by every later pass
\* is >= 75, so the ramp-up branch is never taken and the protection stays
\* active with rpm below originalRpm.
C31_NoRecoveryWithoutCommand ==
    (RunningTick /\ pre.protectionActive /\ noCommandSinceOn) =>
        /\ firstTorque >= 75 * S
        /\ rpm <= pre.rpm
        /\ protectionActive
        /\ rpm < originalRpm
        /\ Matching(raised, {MsgProtectionOff}) = <<>>

\* an undisturbed run that went through the ramp-down and the end of the
\* recipe and now holds its rpm
C31_Witness ==
    /\ RunningTick /\ pre.protectionActive /\ noCommandSinceOn
    /\ phase = Finalizado
    /\ firstTorque < 85 * S
    /\ rpm = pre.rpm
    /\ 10 * rpm < 7 * originalRpm

\* C32: brix never decreases across a pass of the loop or across any command
\* other than reset: every running pass commits a brix >= the previous one,
\* brix >= 20 in every reachable state, and only reset lowers it.
C32_BrixMonotone ==
    [][/\ last' # "reset" => brix' >= brix
       /\ (last' = "tick" /\ ref.running) => brix' >= ref.brix
       /\ brix' < brix => (last' = "reset" /\ brix' = 20 * S)
       /\ brix >= 20 * S /\ brix' >= 20 * S]_vars

\* a running pass below 80 degrees after the syrup was concentrated: no
\* evaporation, brix is held
C32_Witness ==
    /\ RunningTick
    /\ temperature < 80 * S
    /\ brix = pre.brix
    /\ brix > 50 * S

\* C33: the process runs only after the safety acknowledgment: running
\* implies protectionClosed in every reachable state; a click on the start
\* button with the flag false only opens the safety dialog and changes no
\* process state; a click while running (flag true) pauses and does not
\* restart.
C33_SafetyAcknowledgment ==
    [][/\ running => protectionClosed
       /\ running' => protectionClosed'
       /\ last' = "startClickModal" =>
              /\ ~protectionClosed
              /\ showProtectionModal'
              /\ UNCHANGED <<procVars, protectionClosed>>
       /\ last' \in {"startClickModal", "start", "pause"} =>
              /\ ~protectionClosed => last' = "startClickModal"
              /\ (protectionClosed /\ running) =>
                     (last' = "pause" /\ ~running' /\ phase' = phase
                      /\ setpoint' = setpoint)
              /\ (protectionClosed /\ ~running) => (last' = "start" /\ running')]_vars

\* a click on the start button before the acknowledgment, after the operator
\* moved both sliders: the dialog is open and nothing runs
C33_Witness ==
    /\ last = "startClickModal"
    /\ showProtectionModal /\ ~protectionClosed
    /\ ~running
    /\ rpm # 40 * R /\ setpoint # 95
    /\ alarms = <<>> /\ history = <<>>

\* C34: from any state reached by a start (automatic mode), if the loop keeps
\* firing and no further command is issued, the phase eventually reaches
\* Finalizado, whatever the rpm and whether or not the protection goes on
\* on the way.
C34_RecipeTerminates ==
    (last = "start")
        ~> (phase = Finalizado \/ last \notin {"start", "tick", "clock"})

\* the recipe finished by a pass with the protection active
C34_Witness ==
    /\ RunningTick /\ pre.auto
    /\ pre.phase = Ponto /\ phase = Finalizado
    /\ protectionActive
    /\ noCommandSinceOn

====
